---- MODULE Spec2Model ----
(***************************************************************************)
(* Room session coordinator of study-stream-connect                        *)
(* (src/src/contexts/RoomContext.tsx, RoomProvider).                       *)
(*                                                                         *)
(* Strings that the code builds or splits with '-' (room ids, user ids,    *)
(* peer addresses) are sequences of their '-'-separated fields, so that    *)
(* `${roomId}-${user.id}` is concatenation of field sequences and          *)
(* split('-')[1] is the second field. The empty sequence stands for        *)
(* null / undefined / "" (all falsy in the code's guards).                 *)
(*                                                                         *)
(* React state (useState) and refs (useRef) are variables of the same      *)
(* name. A handler invoked from the UI runs against the latest render, so  *)
(* it reads the current state; a callback that outlives the render it was  *)
(* created in (the continuation of an async function after an await, a     *)
(* handler registered on a channel, a peer or a track) reads the state     *)
(* captured when it was created, which the model keeps as a snapshot.      *)
(***************************************************************************)
EXTENDS Integers, Sequences, FiniteSets, TLC

(* ------------------------------ bounds -------------------------------- *)
MaxStreams == 2
MaxChat == 3
MaxInflight == 1
MaxPresences == 2
MaxOverlap == 2

(* --------------------------- value universe --------------------------- *)
Null == << >>
U1 == <<"u1">>
P2 == <<"p2">>
P3 == <<"p3">>
R1 == <<"r1">>
R2 == <<"r2", "x">>
Remotes == {P2, P3}
System == <<"system">>
Texts == {"hello", "bye"}
NoStream == 0

\* `${roomId}-${user.id}`
PeerAddress(room, uid) == room \o uid
\* remotePeerId.split('-')[1]
SplitUser(addr) == IF Len(addr) >= 2 THEN <<addr[2]>> ELSE Null

AddrSeq == <<PeerAddress(R1, P2), PeerAddress(R1, P3),
             PeerAddress(R2, P2), PeerAddress(R2, P3)>>
\* the MediaStream a remote peer sends over a call: one per remote address
RemoteStream(addr) == 0 - (CHOOSE i \in 1..Len(AddrSeq) : AddrSeq[i] = addr)

VARIABLES
    user,                \* useAuth().user (Null when not logged in)
    roomId, participants, chatMessages, localStream,
    isAudioMuted, isVideoOff, isScreenSharing, isJoining,
    localStreamRef, screenShareStreamRef, channelRef, peerRef,
    peerConnectionsRef,
    streams,             \* the MediaStream objects handed out by the browser
    calls,               \* open MediaConnections no longer in the table
    oldPeers,            \* Peer objects overwritten in peerRef, never destroyed
    subscribed,          \* topics the realtime client is subscribed to
    joins,               \* joinRoom invocations suspended at an await
    shares,              \* toggleScreenShare invocations awaiting the prompt
    timers,              \* pending setTimeout(connectToPeers, 1000)
    nextMsg,             \* crypto.randomUUID() for message ids
    lastOp, pre,         \* the last operation and the state it started from
    page                 \* the state of the Room page (src/pages/Room.tsx)

vars == <<user, roomId, participants, chatMessages, localStream,
          isAudioMuted, isVideoOff, isScreenSharing, isJoining,
          localStreamRef, screenShareStreamRef, channelRef, peerRef,
          peerConnectionsRef, streams, calls, oldPeers, subscribed,
          joins, shares, timers, nextMsg, lastOp, pre, page>>

\* the state and refs of the provider
provider == <<user, roomId, participants, chatMessages, localStream,
              isAudioMuted, isVideoOff, isScreenSharing, isJoining,
              localStreamRef, screenShareStreamRef, channelRef, peerRef,
              peerConnectionsRef, streams, calls, oldPeers, subscribed,
              joins, shares, timers, nextMsg>>

(* ------------------------------ helpers ------------------------------- *)
SeqMap(Op(_), s) == [i \in 1..Len(s) |-> Op(s[i])]
RECURSIVE SeqFilter(_, _)
SeqFilter(Test(_), s) ==
    IF s = << >> THEN << >>
    ELSE (IF Test(Head(s)) THEN <<Head(s)>> ELSE << >>) \o SeqFilter(Test, Tail(s))
RemoveAt(s, i) == SubSeq(s, 1, i - 1) \o SubSeq(s, i + 1, Len(s))
Ids(ps) == {ps[i].id : i \in 1..Len(ps)}

NoPeer == [id |-> Null, ready |-> FALSE]
NoChannel == [room |-> Null, wrapped |-> FALSE, snapParticipants |-> << >>,
              snapAM |-> FALSE, snapVO |-> FALSE, snapSS |-> FALSE,
              tracked |-> FALSE, adv |-> [peerId |-> Null, audio |-> FALSE,
                                          video |-> FALSE, screen |-> FALSE]]
\* a MediaConnection: the remote address, the stream sent, the Peer it was
\* made through (peerRef's: "cur"), the participant its 'stream' handler
\* updates (Null: no handler) and whether that handler also sets peerId
Call(peer, media, via, target, setsPeer) ==
    [peer |-> peer, media |-> media, via |-> via, target |-> target,
     setsPeer |-> setsPeer, open |-> TRUE]
PreNone == [am |-> FALSE, vo |-> FALSE, mic |-> FALSE, cam |-> FALSE]

\* Room: isAuthorized, hasJoined and roomError are its useState values;
\* check is the checkRoomAccess call of its effect that is suspended at an
\* await, with the hasJoined and isAuthorized of the render the effect ran
\* in; leaving: handleLeaveRoom is suspended at its await; leftMidJoin
\* records that leaveRoom ran while a joinRoom was suspended
\* tiles: the VideoTile the page's VideoGrid renders for each roster entry
\* (keyed by participant.id): the participant.stream and participant.isMuted
\* its effect last ran with, whether its <video> element is rendered, and
\* that element's srcObject
NoCheck == [pending |-> FALSE, hasJoined |-> FALSE, isAuthorized |-> FALSE]
NoTile == [mounted |-> FALSE, stream |-> NoStream, isMuted |-> FALSE,
           video |-> FALSE, srcObject |-> NoStream]
NewPage == [isAuthorized |-> FALSE, hasJoined |-> FALSE, roomError |-> FALSE,
            check |-> NoCheck, leaving |-> FALSE, leftMidJoin |-> FALSE,
            tiles |-> [u \in {U1} \cup Remotes |-> NoTile]]

PresenceTopic(room) == <<"room">> \o room
ChatTopic(room) == <<"chat">> \o room

\* a MediaStream from getUserMedia (screen = FALSE: one audio track, and a
\* video track when video) or getDisplayMedia (screen = TRUE: one video
\* track); its tracks start enabled and live. onended: the handler
\* toggleScreenShare registers on the screen track, with the state it captured
NoEnded == [set |-> FALSE, room |-> Null]
FreeSlot == [used |-> FALSE, screen |-> FALSE, video |-> FALSE,
             aEn |-> FALSE, vEn |-> FALSE, live |-> FALSE, onended |-> NoEnded]
NewStream(screen, video) ==
    [used |-> TRUE, screen |-> screen, video |-> video,
     aEn |-> ~screen, vEn |-> video, live |-> TRUE, onended |-> NoEnded]

\* stream.getTracks().forEach(track => track.stop())
StopTracks(ss, s) == IF s = NoStream THEN ss ELSE [ss EXCEPT ![s].live = FALSE]

\* the slot the next MediaStream object takes
FreeId(ss) == CHOOSE s \in 1..MaxStreams :
                 /\ ~ss[s].used
                 /\ \A t \in 1..(s - 1) : ss[t].used
Used(ss) == {s \in 1..MaxStreams : ss[s].used}

\* a MediaStream whose tracks are stopped and that nothing refers to any
\* more is garbage: its slot is free again
Collect(ss, refs) ==
    [s \in 1..MaxStreams |->
        IF ss[s].used /\ ~ss[s].live /\ s \notin refs THEN FreeSlot ELSE ss[s]]

(* ------------------------------- Init --------------------------------- *)
Init ==
    /\ user \in {U1, Null}
    /\ roomId = Null
    /\ participants = << >>
    /\ chatMessages = << >>
    /\ localStream = NoStream
    /\ isAudioMuted = FALSE
    /\ isVideoOff = FALSE
    /\ isScreenSharing = FALSE
    /\ isJoining = FALSE
    /\ localStreamRef = NoStream
    /\ screenShareStreamRef = NoStream
    /\ channelRef = NoChannel
    /\ peerRef = NoPeer
    /\ peerConnectionsRef = << >>
    /\ streams = [s \in 1..MaxStreams |-> FreeSlot]
    /\ calls = {}
    /\ oldPeers = {}
    /\ subscribed = {}
    /\ joins = << >>
    /\ shares = << >>
    /\ timers = {}
    /\ nextMsg = 1
    /\ lastOp = [op |-> "init", n |-> 1]
    /\ pre = PreNone
    /\ page = NewPage

\* lastOp: the operation that ran last and how many times in a row (1 or 2,
\* then 1 again). pre: for a toggle, the flags and track states that the
\* first toggle of the current pair started from
MicEnabled == IF localStreamRef = NoStream THEN FALSE ELSE streams[localStreamRef].aEn
CamEnabled == IF localStreamRef = NoStream THEN FALSE ELSE streams[localStreamRef].vEn
PreNow == [am |-> isAudioMuted, vo |-> isVideoOff, mic |-> MicEnabled,
           cam |-> CamEnabled]
Did(op) == lastOp' = [op |-> op, n |-> 1] /\ pre' = PreNone
DidToggle(op) ==
    LET second == lastOp.op = op /\ lastOp.n = 1
    IN  /\ lastOp' = [op |-> op, n |-> IF second THEN 2 ELSE 1]
        /\ pre' = IF second THEN pre ELSE PreNow

\* every reference to a MediaStream object the program or a call holds
Refs == {localStreamRef, screenShareStreamRef, localStream}
        \cup {participants[i].stream : i \in 1..Len(participants)}
        \cup {peerConnectionsRef[a].media : a \in DOMAIN peerConnectionsRef}
        \cup {c.media : c \in calls}

\* what connectToPeers visits of the participants it captured: the entries
\* of other users that carry a peerId, as (id, peerId) pairs
Targets(ps) == SeqFilter(LAMBDA t : t.id # user /\ t.peerId # Null,
                         SeqMap(LAMBDA p : [id |-> p.id, peerId |-> p.peerId], ps))

\* streams the browser may still have to hand out to suspended requests
Reserved == Len(SeqFilter(LAMBDA j : j.pc = "media", joins)) + Len(shares)

(* --------------------------- initLocalStream -------------------------- *)
\* an audio-only tier that leaves isVideoOff as the first tier would set it
FallbackVideoOn(cam, mic) ==
    IF mic
    THEN [handle |-> TRUE, video |-> cam, muted |-> FALSE, videoOff |-> FALSE]
    ELSE [handle |-> FALSE, video |-> FALSE, muted |-> TRUE, videoOff |-> TRUE]

\* the three tiers of initLocalStream: what getUserMedia yields for the
\* devices present, and the flags the tier sets
Fallback(cam, mic) ==
    IF cam /\ mic
    THEN [handle |-> TRUE, video |-> TRUE, muted |-> FALSE, videoOff |-> FALSE]
    ELSE IF mic
    THEN [handle |-> TRUE, video |-> FALSE, muted |-> FALSE, videoOff |-> TRUE]
    ELSE [handle |-> FALSE, video |-> FALSE, muted |-> TRUE, videoOff |-> TRUE]

\* setParticipants(prev => ...) of initLocalStream: update the user's entry
\* or append one
LocalEntry(prev, uid, setStream, s, muted, videoOff) ==
    IF uid \in Ids(prev)
    THEN [i \in 1..Len(prev) |->
            IF prev[i].id = uid
            THEN [prev[i] EXCEPT !.stream = IF setStream THEN s ELSE @,
                                 !.isMuted = muted,
                                 !.isVideoOff = videoOff,
                                 !.isScreenSharing = FALSE]
            ELSE prev[i]]
    ELSE Append(prev, [id |-> uid,
                       stream |-> IF setStream THEN s ELSE NoStream,
                       isMuted |-> muted, isVideoOff |-> videoOff,
                       isScreenSharing |-> FALSE, peerId |-> Null])

initLocalStream(cam, mic) ==
    LET t == Fallback(cam, mic)
        s == FreeId(streams)
    IN  /\ localStreamRef' = IF t.handle THEN s ELSE localStreamRef
        /\ localStream' = IF t.handle THEN s ELSE localStream
        /\ isAudioMuted' = t.muted
        /\ isVideoOff' = t.videoOff
        /\ participants' = IF user # Null
                           THEN LocalEntry(participants, user, t.handle, s,
                                           t.muted, t.videoOff)
                           ELSE participants
        /\ streams' = Collect(IF t.handle
                              THEN [streams EXCEPT ![s] = NewStream(FALSE, t.video)]
                              ELSE streams, Refs')

(* ------------------------ fetchRoomParticipants ----------------------- *)
RemoteEntry(uid) ==
    [id |-> uid, stream |-> NoStream, isMuted |-> FALSE, isVideoOff |-> FALSE,
     isScreenSharing |-> FALSE, peerId |-> Null]

\* data.filter(p => p.user_id !== user?.id).map(...), then the entries whose
\* id prev does not hold are appended
fetchRoomParticipants(prev, data, uid) ==
    LET roomParticipants == SeqMap(RemoteEntry, SeqFilter(LAMBDA d : d # uid, data))
        newParticipants == SeqFilter(LAMBDA p : p.id \notin Ids(prev), roomParticipants)
    IN  prev \o newParticipants

(* ---------------------------- initializePeer -------------------------- *)
\* calls made through the Peer that peerRef no longer holds
Orphaned(c) == [c EXCEPT !.via = "old"]

\* reads roomId of the render joinRoom was called in (snapRoom)
initializePeer(snapRoom) ==
    IF user = Null \/ snapRoom = Null
    THEN UNCHANGED <<peerRef, oldPeers>>
    ELSE /\ peerRef' = [id |-> PeerAddress(snapRoom, user), ready |-> FALSE]
         /\ oldPeers' = IF peerRef = NoPeer THEN oldPeers ELSE oldPeers \cup {peerRef}

PeerReplaced(snapRoom) == user # Null /\ snapRoom # Null

(* -------------------- setupRealTimePresence / chat -------------------- *)
\* supabase.removeChannel(ch) calls ch.unsubscribe(); the object that
\* setupChatChannel leaves in channelRef unsubscribes both channels
removeChannel(ch, subs) ==
    IF ch.room = Null THEN subs
    ELSE subs \ ({PresenceTopic(ch.room)}
                 \cup (IF ch.wrapped THEN {ChatTopic(ch.room)} ELSE {}))

\* setupRealTimePresence(id) followed by setupChatChannel(id)
setupChannels(id, j) ==
    /\ subscribed' = removeChannel(channelRef, subscribed)
                        \cup {PresenceTopic(id), ChatTopic(id)}
    /\ channelRef' = [NoChannel EXCEPT !.room = id, !.wrapped = TRUE,
                                       !.snapParticipants = j.snapParticipants,
                                       !.snapAM = j.snapAM,
                                       !.snapVO = j.snapVO,
                                       !.snapSS = j.snapSS]

(* ------------------------------ joinRoom ------------------------------ *)
Welcome == [id |-> 0, senderId |-> System, text |-> "welcome"]

\* joinRoom(id) up to `await initLocalStream()`, with at most limit
\* invocations suspended at a time
joinRoom_call(id, limit) ==
    /\ Len(joins) < limit
    /\ Cardinality(Used(streams)) + Reserved < MaxStreams
    /\ IF user = Null
       THEN UNCHANGED <<isJoining, joins>>
       ELSE /\ isJoining' = TRUE
            /\ joins' = Append(joins, [pc |-> "media", id |-> id,
                                       snapRoom |-> roomId,
                                       snapParticipants |-> participants,
                                       snapAM |-> isAudioMuted,
                                       snapVO |-> isVideoOff,
                                       snapSS |-> isScreenSharing])
    /\ Did("joinRoom")
    /\ UNCHANGED <<user, roomId, participants, chatMessages, localStream,
                   isAudioMuted, isVideoOff, isScreenSharing,
                   localStreamRef, screenShareStreamRef, channelRef, peerRef,
                   peerConnectionsRef, streams, calls, oldPeers, subscribed,
                   shares, timers, nextMsg>>

joinRoom(id) == joinRoom_call(id, MaxInflight)

\* initLocalStream() settles; setRoomId(id); up to `await fetchRoomParticipants(id)`
joinRoom_media(i, cam, mic) ==
    /\ i \in 1..Len(joins)
    /\ joins[i].pc = "media"
    /\ UNCHANGED <<user, chatMessages, isScreenSharing, isJoining,
                   screenShareStreamRef, channelRef, peerRef,
                   peerConnectionsRef, calls, oldPeers, subscribed,
                   shares, timers, nextMsg>>
    /\ initLocalStream(cam, mic)
    /\ roomId' = joins[i].id
    /\ joins' = [joins EXCEPT ![i].pc = "fetch"]
    /\ Did("initLocalStream")

\* fetchRoomParticipants settles (ok: the query returned data); then
\* initializePeer, setupRealTimePresence, setupChatChannel, the welcome
\* message and the finally block
joinRoom_finish(i, ok, data) ==
    /\ i \in 1..Len(joins)
    /\ joins[i].pc = "fetch"
    /\ participants' = IF ok
                       THEN fetchRoomParticipants(participants, data, user)
                       ELSE participants
    /\ initializePeer(joins[i].snapRoom)
    /\ peerConnectionsRef' = IF PeerReplaced(joins[i].snapRoom)
                             THEN [a \in DOMAIN peerConnectionsRef |->
                                     Orphaned(peerConnectionsRef[a])]
                             ELSE peerConnectionsRef
    /\ calls' = IF PeerReplaced(joins[i].snapRoom)
                THEN {Orphaned(c) : c \in calls}
                ELSE calls
    /\ setupChannels(joins[i].id, joins[i])
    /\ chatMessages' = <<Welcome>>
    /\ isJoining' = FALSE
    /\ joins' = RemoveAt(joins, i)
    /\ Did("joinRoom_finish")
    /\ UNCHANGED <<user, roomId, localStream, isAudioMuted, isVideoOff,
                   isScreenSharing, localStreamRef, screenShareStreamRef,
                   shares, timers, nextMsg>>
    /\ streams' = Collect(streams, Refs')

\* setupRealTimePresence(id) alone: the channel it leaves in channelRef is
\* the presence channel itself
setupRealTimePresence(id, j) ==
    /\ subscribed' = removeChannel(channelRef, subscribed) \cup {PresenceTopic(id)}
    /\ channelRef' = [NoChannel EXCEPT !.room = id,
                                       !.snapParticipants = j.snapParticipants,
                                       !.snapAM = j.snapAM,
                                       !.snapVO = j.snapVO,
                                       !.snapSS = j.snapSS]

\* fetchRoomParticipants settles and one of the steps after it raises:
\*   "peer"     - new Peer(peerId) throws; initializePeer catches it and
\*                returns null, and joinRoom goes on to the end
\*   "presence" - supabase.channel(`room:${id}`) throws, after the channel
\*                held in channelRef was removed
\*   "chat"     - supabase.channel(`chat:${id}`) throws
\* The catch block of joinRoom sets roomId to null, the finally block
\* isJoining to false
joinRoom_raise(i, data, step) ==
    /\ i \in 1..Len(joins)
    /\ joins[i].pc = "fetch"
    /\ step = "peer" => PeerReplaced(joins[i].snapRoom)
    /\ participants' = fetchRoomParticipants(participants, data, user)
    /\ IF step = "peer"
       THEN /\ UNCHANGED <<peerRef, oldPeers, peerConnectionsRef, calls, roomId>>
            /\ setupChannels(joins[i].id, joins[i])
            /\ chatMessages' = <<Welcome>>
       ELSE /\ initializePeer(joins[i].snapRoom)
            /\ peerConnectionsRef' = IF PeerReplaced(joins[i].snapRoom)
                                     THEN [a \in DOMAIN peerConnectionsRef |->
                                             Orphaned(peerConnectionsRef[a])]
                                     ELSE peerConnectionsRef
            /\ calls' = IF PeerReplaced(joins[i].snapRoom)
                        THEN {Orphaned(c) : c \in calls}
                        ELSE calls
            /\ IF step = "presence"
               THEN /\ subscribed' = removeChannel(channelRef, subscribed)
                    /\ UNCHANGED channelRef
               ELSE setupRealTimePresence(joins[i].id, joins[i])
            /\ roomId' = Null
            /\ UNCHANGED chatMessages
    /\ isJoining' = FALSE
    /\ joins' = RemoveAt(joins, i)
    /\ Did("joinRoom_raise")
    /\ UNCHANGED <<user, localStream, isAudioMuted, isVideoOff,
                   isScreenSharing, localStreamRef, screenShareStreamRef,
                   shares, timers, nextMsg>>
    /\ streams' = Collect(streams, Refs')

(* ------------------------------ leaveRoom ----------------------------- *)
\* The controls that call leaveRoom, sendChatMessage and the toggles are
\* rendered by the Room page only when it is past its "Joining Room..."
\* screen
UIReady == ~isJoining

\* peer.destroy() closes every connection made through that peer
leaveRoom_run ==
    /\ localStreamRef' = NoStream
    /\ screenShareStreamRef' = NoStream
    /\ peerRef' = NoPeer
    /\ calls' = IF peerRef = NoPeer THEN calls ELSE {c \in calls : c.via # "cur"}
    /\ peerConnectionsRef' = << >>
    /\ subscribed' = removeChannel(channelRef, subscribed)
    /\ channelRef' = NoChannel
    /\ localStream' = NoStream
    /\ isScreenSharing' = FALSE
    /\ roomId' = Null
    /\ participants' = << >>
    /\ chatMessages' = << >>
    /\ Did("leaveRoom")
    /\ UNCHANGED <<user, isAudioMuted, isVideoOff, isJoining, oldPeers,
                   joins, shares, timers, nextMsg>>
    /\ streams' = Collect(StopTracks(StopTracks(streams, localStreamRef),
                                     screenShareStreamRef), Refs')

\* leaveRoom() called from the controls
leaveRoom == UIReady /\ leaveRoom_run

(* ------------------------------ Room page ---------------------------- *)
\* the page's useEffect runs (its dependencies include joinRoom, which is a
\* new function on every render of the provider): checkRoomAccess starts
\* and is suspended at its query, holding the hasJoined and isAuthorized of
\* this render
Room_effect ==
    /\ ~page.check.pending
    /\ page' = [page EXCEPT !.check = [pending |-> TRUE,
                                       hasJoined |-> page.hasJoined,
                                       isAuthorized |-> page.isAuthorized]]
    /\ lastOp' = [op |-> "Room_effect", n |-> 1]
    /\ pre' = PreNone
    /\ UNCHANGED provider

\* an access check that lets everyone in
AccessGrantedAlways(found, public) == TRUE

\* the room was found and is public, or the user is authenticated
AccessGranted(found, public) == found /\ (public \/ user # Null)

\* checkRoomAccess resumes with the result of its query (and of the upsert
\* for a logged-in user)
checkRoomAccess(found, public) ==
    /\ page.check.pending
    /\ LET granted == AccessGranted(found, public)
           joining == /\ granted
                      /\ ~page.check.hasJoined
                      /\ page.check.isAuthorized
       IN  /\ page' = [page EXCEPT
                         !.check = NoCheck,
                         !.roomError = IF granted THEN @ ELSE TRUE,
                         !.isAuthorized = IF granted THEN TRUE ELSE @,
                         !.hasJoined = IF joining THEN TRUE ELSE @,
                         !.leftMidJoin = IF joining /\ joins = << >>
                                         THEN FALSE ELSE @]
           /\ IF joining
              THEN joinRoom(R1)
              ELSE /\ lastOp' = [op |-> "checkRoomAccess", n |-> 1]
                   /\ pre' = PreNone
                   /\ UNCHANGED provider

\* the toggles that handleLeaveRoom of the controls calls first
\* (if (!isAudioMuted) toggleAudio(), ...) have nothing to do
NothingToTurnOff ==
    /\ ~isScreenSharing
    /\ IF localStream = NoStream THEN TRUE
       ELSE /\ isAudioMuted \/ streams[localStream].screen
            /\ isVideoOff \/ ~streams[localStream].video

\* the Leave button, pressed when nothing is left to turn off: the
\* handleLeaveRoom of the controls calls the handleLeaveRoom of the page,
\* which for a logged-in user awaits the update of room_participants
\* before it calls leaveRoom() and navigates to the dashboard
handleLeaveRoom ==
    /\ page.isAuthorized
    /\ ~page.roomError
    /\ UIReady
    /\ ~page.leaving
    /\ NothingToTurnOff
    /\ IF user = Null
       THEN /\ leaveRoom_run
            /\ page' = [NewPage EXCEPT !.check = page.check,
                                       !.leftMidJoin = joins # << >>]
       ELSE /\ page' = [page EXCEPT !.leaving = TRUE]
            /\ lastOp' = [op |-> "handleLeaveRoom", n |-> 1]
            /\ pre' = PreNone
            /\ UNCHANGED provider

\* the update settles: leaveRoom(); navigate("/dashboard"). The page is
\* unmounted, and mounted anew with its initial state when the user opens
\* the room again; the provider wraps all routes and keeps its own state.
handleLeaveRoom_resume ==
    /\ page.leaving
    /\ leaveRoom_run
    /\ page' = [NewPage EXCEPT !.check = page.check,
                               !.leftMidJoin = joins # << >>]

(* ------------------------------ VideoTile ----------------------------- *)
\* participant.stream.getVideoTracks().length > 0 (a remote stream carries
\* video)
HasVideoTrack(s) == IF s \in 1..MaxStreams THEN streams[s].video ELSE TRUE

\* VideoTile rendered with a roster entry (present: the entry is in the
\* roster), and its useEffect([participant.stream, participant.isMuted]):
\*   - the <video> element is rendered when hasVideoStream; an element that
\*     was rendered before keeps its srcObject, a new one has none;
\*   - when a dependency changed, the cleanup of the previous run stops
\*     every track of videoRef.current.srcObject (if the element is there)
\*     and the effect sets srcObject to participant.stream;
\*   - on unmount the element is detached before the cleanup runs
\*     (videoRef.current is null)
\* Yields the tile afterwards and the streams whose tracks were stopped
VideoTile(tile, present, entry) ==
    LET hasVideoStream == /\ present
                          /\ entry.stream # NoStream
                          /\ HasVideoTrack(entry.stream)
                          /\ ~entry.isVideoOff
        kept == IF hasVideoStream /\ tile.video THEN tile.srcObject ELSE NoStream
        rerun == /\ present
                 /\ \/ ~tile.mounted
                    \/ tile.stream # entry.stream
                    \/ tile.isMuted # entry.isMuted
        stopped == IF rerun /\ tile.mounted /\ kept # NoStream THEN {kept} ELSE {}
    IN  [tile |-> IF present
                  THEN [mounted |-> TRUE, stream |-> entry.stream,
                        isMuted |-> entry.isMuted, video |-> hasVideoStream,
                        srcObject |-> IF ~rerun THEN kept
                                      ELSE IF hasVideoStream THEN entry.stream
                                      ELSE NoStream]
                  ELSE NoTile,
         stopped |-> stopped]

\* the tile of user u after a render with the current roster; the page
\* renders its "Joining Room..." screen instead of the grid while isJoining
TileNow(u) ==
    IF ~isJoining /\ u \in Ids(participants)
    THEN VideoTile(page.tiles[u], TRUE,
                   participants[CHOOSE k \in 1..Len(participants) :
                                    participants[k].id = u])
    ELSE VideoTile(page.tiles[u], FALSE, RemoteEntry(u))

\* a render of the grid is pending for some tile
TilesDirty == \E u \in DOMAIN page.tiles : TileNow(u).tile # page.tiles[u]

RECURSIVE StopAll(_, _)
StopAll(ss, S) ==
    IF S = {} THEN ss
    ELSE LET s == CHOOSE x \in S : TRUE
         IN  StopAll(IF s \in 1..MaxStreams THEN StopTracks(ss, s) ELSE ss,
                     S \ {s})

\* the grid re-renders after a change of the roster: the tile of u is
\* rendered with its entry and its effect runs
VideoTile_render(u) ==
    /\ u \in DOMAIN page.tiles
    /\ TileNow(u).tile # page.tiles[u]
    /\ page' = [page EXCEPT !.tiles[u] = TileNow(u).tile]
    /\ lastOp' = [op |-> "VideoTile", n |-> 1]
    /\ pre' = PreNone
    /\ UNCHANGED <<user, roomId, participants, chatMessages, localStream,
                   isAudioMuted, isVideoOff, isScreenSharing, isJoining,
                   localStreamRef, screenShareStreamRef, channelRef, peerRef,
                   peerConnectionsRef, calls, oldPeers, subscribed,
                   joins, shares, timers, nextMsg>>
    /\ streams' = Collect(StopAll(streams, TileNow(u).stopped), Refs')

(* --------------------------- sendChatMessage -------------------------- *)
\* a history that takes the new message at the front
LocalEchoFirst(prev, msg) == <<msg>> \o prev

\* setChatMessages(prev => [...prev, newMessage])
LocalEcho(prev, msg) == Append(prev, msg)

sendChatMessage(text) ==
    /\ UIReady
    /\ nextMsg <= MaxChat
    /\ IF user = Null \/ roomId = Null
       THEN UNCHANGED <<chatMessages, nextMsg>>
       ELSE /\ chatMessages' = LocalEcho(chatMessages,
                                 [id |-> nextMsg, senderId |-> user, text |-> text])
            /\ nextMsg' = nextMsg + 1
    /\ Did("sendChatMessage")
    /\ UNCHANGED <<user, roomId, participants, localStream,
                   isAudioMuted, isVideoOff, isScreenSharing, isJoining,
                   localStreamRef, screenShareStreamRef, channelRef, peerRef,
                   peerConnectionsRef, streams, calls, oldPeers, subscribed,
                   joins, shares, timers>>

\* a handler that appends every message delivered
DeliverAll(prev, msg) == Append(prev, msg)

\* if (msg.senderId !== user.id) setChatMessages(prev => [...prev, {...}])
Deliver(prev, msg) ==
    IF msg.senderId # user THEN Append(prev, msg) ELSE prev

\* the 'chat_message' broadcast handler of setupChatChannel
chatMessage(msg) ==
    /\ channelRef.wrapped
    /\ ChatTopic(channelRef.room) \in subscribed
    /\ Len(chatMessages) < MaxChat
    /\ chatMessages' = Deliver(chatMessages, msg)
    /\ Did("chatMessage")
    /\ UNCHANGED <<user, roomId, participants, localStream,
                   isAudioMuted, isVideoOff, isScreenSharing, isJoining,
                   localStreamRef, screenShareStreamRef, channelRef, peerRef,
                   peerConnectionsRef, streams, calls, oldPeers, subscribed,
                   joins, shares, timers, nextMsg>>

(* ------------------------------ presence ------------------------------ *)
\* channelRef.current.track(...): the object setupChatChannel leaves in
\* channelRef is a spread copy of the channel, which has no track method
track(ch, room, desc) ==
    IF room = Null \/ ch.room = Null \/ ch.wrapped THEN ch
    ELSE [ch EXCEPT !.adv = desc]

\* a descriptor that carries the address only of a Peer that is open
DescriptorWhenOpen(am, vo, ss) ==
    [peerId |-> IF peerRef.ready THEN peerRef.id ELSE Null,
     audio |-> ~am, video |-> ~vo, screen |-> ss]

\* peerId: peerRef.current.id, which new Peer(peerId) sets at construction
Descriptor(am, vo, ss) ==
    [peerId |-> peerRef.id, audio |-> ~am, video |-> ~vo, screen |-> ss]

\* the subscribe callback of setupRealTimePresence, status SUBSCRIBED:
\* channel.track on the channel itself, with the flags joinRoom captured
presenceSubscribed ==
    /\ channelRef.room # Null
    /\ PresenceTopic(channelRef.room) \in subscribed
    /\ ~channelRef.tracked
    /\ channelRef' = [channelRef EXCEPT
                        !.tracked = TRUE,
                        !.adv = Descriptor(channelRef.snapAM, channelRef.snapVO,
                                           channelRef.snapSS)]
    /\ Did("presenceSubscribed")
    /\ UNCHANGED <<user, roomId, participants, chatMessages, localStream,
                   isAudioMuted, isVideoOff, isScreenSharing, isJoining,
                   localStreamRef, screenShareStreamRef, peerRef,
                   peerConnectionsRef, streams, calls, oldPeers, subscribed,
                   joins, shares, timers, nextMsg>>

\* setParticipants(prev => prev.map(p => p.id === presence.user_id ?
\* {...p, peerId: presence.peerId} : p)) for each presence that carries a
\* peerId and is not the user's own
RECURSIVE SetPeerIds(_, _)
SetPeerIds(prev, presences) ==
    IF presences = << >> THEN prev
    ELSE LET pr == Head(presences)
             next == IF pr.peerId # Null /\ pr.user_id # user
                     THEN [i \in 1..Len(prev) |->
                             IF prev[i].id = pr.user_id
                             THEN [prev[i] EXCEPT !.peerId = pr.peerId]
                             ELSE prev[i]]
                     ELSE prev
         IN  SetPeerIds(next, Tail(presences))

\* the forEach of connectToPeers: one call per visited entry whose peerId
\* is not in the table yet
RECURSIVE ConnectAll(_, _)
ConnectAll(ts, table) ==
    IF ts = << >> THEN table
    ELSE LET t == Head(ts)
         IN  ConnectAll(Tail(ts),
                IF t.peerId \in DOMAIN table THEN table
                ELSE table @@ (t.peerId :>
                        Call(t.peerId, localStreamRef, "cur", t.id, FALSE)))

\* connectToPeers, reading the participants of the render it was created in
connectToPeers(ts) ==
    IF peerRef = NoPeer \/ localStreamRef = NoStream \/ user = Null
    THEN peerConnectionsRef
    ELSE ConnectAll(Targets(ts), peerConnectionsRef)

PresenceLive ==
    /\ channelRef.room # Null
    /\ PresenceTopic(channelRef.room) \in subscribed

\* presence 'sync' with channel.presenceState() = state
presenceSync(state) ==
    /\ PresenceLive
    /\ participants' = SetPeerIds(participants, state)
    /\ peerConnectionsRef' = connectToPeers(channelRef.snapParticipants)
    /\ Did("presenceSync")
    /\ UNCHANGED <<user, roomId, chatMessages, localStream,
                   isAudioMuted, isVideoOff, isScreenSharing, isJoining,
                   localStreamRef, screenShareStreamRef, channelRef, peerRef,
                   streams, calls, oldPeers, subscribed,
                   joins, shares, timers, nextMsg>>

\* presence 'join'
presenceJoin(newPresences) ==
    /\ PresenceLive
    /\ participants' = SetPeerIds(participants, newPresences)
    /\ timers' = IF \E k \in 1..Len(newPresences) :
                       /\ newPresences[k].peerId # Null
                       /\ newPresences[k].user_id # user
                 THEN timers \cup {channelRef.snapParticipants}
                 ELSE timers
    /\ Did("presenceJoin")
    /\ UNCHANGED <<user, roomId, chatMessages, localStream,
                   isAudioMuted, isVideoOff, isScreenSharing, isJoining,
                   localStreamRef, screenShareStreamRef, channelRef, peerRef,
                   peerConnectionsRef, streams, calls, oldPeers, subscribed,
                   joins, shares, nextMsg>>

\* setTimeout(connectToPeers, 1000) fires
connectTimer(ts) ==
    /\ ts \in timers
    /\ timers' = timers \ {ts}
    /\ peerConnectionsRef' = connectToPeers(ts)
    /\ Did("connectToPeers")
    /\ UNCHANGED <<user, roomId, participants, chatMessages, localStream,
                   isAudioMuted, isVideoOff, isScreenSharing, isJoining,
                   localStreamRef, screenShareStreamRef, channelRef, peerRef,
                   streams, calls, oldPeers, subscribed,
                   joins, shares, nextMsg>>

\* the connections the 'leave' handler closes and deletes: those stored
\* under a peerId that a leaving presence carries
LeftKeys(leftPresences, table) ==
    {leftPresences[k].peerId : k \in 1..Len(leftPresences)} \cap DOMAIN table

\* presence 'leave'
presenceLeave(leftPresences) ==
    /\ PresenceLive
    /\ LET leftIds == {leftPresences[k].user_id : k \in 1..Len(leftPresences)}
           gone == LeftKeys(leftPresences, peerConnectionsRef)
       IN  IF leftIds = {}
           THEN UNCHANGED <<participants, peerConnectionsRef>>
           ELSE /\ participants' = SeqFilter(LAMBDA p : p.id \notin leftIds,
                                             participants)
                /\ peerConnectionsRef' =
                       [a \in DOMAIN peerConnectionsRef \ gone |->
                           peerConnectionsRef[a]]
    /\ Did("presenceLeave")
    /\ UNCHANGED <<user, roomId, chatMessages, localStream,
                   isAudioMuted, isVideoOff, isScreenSharing, isJoining,
                   localStreamRef, screenShareStreamRef, channelRef, peerRef,
                   calls, oldPeers, subscribed, joins, shares, timers, nextMsg>>
    /\ streams' = Collect(streams, Refs')

(* ------------------------------ peer events --------------------------- *)
SetOwnPeerId(prev, id) ==
    [i \in 1..Len(prev) |->
        IF prev[i].id = user THEN [prev[i] EXCEPT !.peerId = id] ELSE prev[i]]

\* peer.on('open') of the Peer in peerRef
peerOpen ==
    /\ peerRef # NoPeer
    /\ ~peerRef.ready
    /\ peerRef' = [peerRef EXCEPT !.ready = TRUE]
    /\ participants' = IF user # Null
                       THEN SetOwnPeerId(participants, peerRef.id)
                       ELSE participants
    /\ Did("peerOpen")
    /\ UNCHANGED <<user, roomId, chatMessages, localStream,
                   isAudioMuted, isVideoOff, isScreenSharing, isJoining,
                   localStreamRef, screenShareStreamRef, channelRef,
                   peerConnectionsRef, streams, calls, oldPeers, subscribed,
                   joins, shares, timers, nextMsg>>

\* peer.on('open') of a Peer that peerRef no longer holds
oldPeerOpen(p) ==
    /\ p \in oldPeers
    /\ ~p.ready
    /\ oldPeers' = (oldPeers \ {p}) \cup {[p EXCEPT !.ready = TRUE]}
    /\ participants' = IF user # Null
                       THEN SetOwnPeerId(participants, p.id)
                       ELSE participants
    /\ Did("peerOpen")
    /\ UNCHANGED <<user, roomId, chatMessages, localStream,
                   isAudioMuted, isVideoOff, isScreenSharing, isJoining,
                   localStreamRef, screenShareStreamRef, channelRef, peerRef,
                   peerConnectionsRef, streams, calls, subscribed,
                   joins, shares, timers, nextMsg>>

\* table.set(key, call): the connection stored under key before, if still
\* open, stays open outside the table
Displaced(table, key) ==
    IF key \in DOMAIN table /\ table[key].open THEN {table[key]} ELSE {}

\* peer.on('call'): answer with localStreamRef.current (and listen for the
\* remote stream) or with nothing; store the call under call.peer
peerCall(via, addr) ==
    /\ \/ via = "cur" /\ peerRef # NoPeer /\ peerRef.ready
       \/ via = "old" /\ \E p \in oldPeers : p.ready
    /\ LET c == IF localStreamRef # NoStream
                THEN Call(addr, localStreamRef, via, SplitUser(addr), TRUE)
                ELSE Call(addr, NoStream, via, Null, FALSE)
       IN  /\ calls' = (calls \cup Displaced(peerConnectionsRef, addr)) \ {c}
           /\ peerConnectionsRef' =
                  [a \in DOMAIN peerConnectionsRef \cup {addr} |->
                      IF a = addr THEN c ELSE peerConnectionsRef[a]]
    /\ Did("peerCall")
    /\ UNCHANGED <<user, roomId, participants, chatMessages, localStream,
                   isAudioMuted, isVideoOff, isScreenSharing, isJoining,
                   localStreamRef, screenShareStreamRef, channelRef, peerRef,
                   streams, oldPeers, subscribed, joins, shares, timers, nextMsg>>

\* a call this side placed (connectToPeers, or a screen share re-dialing)
Outbound(c) == c.target # Null /\ ~c.setsPeer

OpenCalls == calls \cup {peerConnectionsRef[a] : a \in
                            {b \in DOMAIN peerConnectionsRef : peerConnectionsRef[b].open}}

\* call.on('stream') of an open connection
callStream(c) ==
    /\ c \in OpenCalls
    /\ c.target # Null
    /\ participants' =
          [i \in 1..Len(participants) |->
              IF participants[i].id = c.target
              THEN [participants[i] EXCEPT
                       !.stream = RemoteStream(c.peer),
                       !.peerId = IF c.setsPeer THEN c.peer ELSE @]
              ELSE participants[i]]
    /\ Did("callStream")
    /\ UNCHANGED <<user, roomId, chatMessages, localStream,
                   isAudioMuted, isVideoOff, isScreenSharing, isJoining,
                   localStreamRef, screenShareStreamRef, channelRef, peerRef,
                   peerConnectionsRef, calls, oldPeers, subscribed,
                   joins, shares, timers, nextMsg>>
    /\ streams' = Collect(streams, Refs')

\* peer.on('error'): a call to or from addr fails (the remote peer is
\* unavailable, the media negotiation breaks down). The connection is dead;
\* the handler logs and shows a toast. No handler is registered on the call
\* itself ('close' or 'error') anywhere in the provider
peerError(addr) ==
    /\ peerRef # NoPeer
    /\ addr \in DOMAIN peerConnectionsRef
    /\ peerConnectionsRef[addr].open
    /\ peerConnectionsRef' = [peerConnectionsRef EXCEPT ![addr].open = FALSE]
    /\ Did("peerError")
    /\ UNCHANGED <<user, roomId, participants, chatMessages, localStream,
                   isAudioMuted, isVideoOff, isScreenSharing, isJoining,
                   localStreamRef, screenShareStreamRef, channelRef, peerRef,
                   streams, calls, oldPeers, subscribed,
                   joins, shares, timers, nextMsg>>

(* --------------------------- toggleAudio/Video ------------------------ *)
SetOwn(prev, Upd(_)) ==
    [i \in 1..Len(prev) |-> IF prev[i].id = user THEN Upd(prev[i]) ELSE prev[i]]

\* reads localStream (the state), which is the screen stream while sharing
toggleAudio ==
    /\ UIReady
    /\ LET newMuteState == ~isAudioMuted
       IN  IF localStream = NoStream \/ streams[localStream].screen
           THEN UNCHANGED <<streams, isAudioMuted, participants, channelRef>>
           ELSE /\ streams' = [streams EXCEPT ![localStream].aEn = ~newMuteState]
                /\ isAudioMuted' = newMuteState
                /\ participants' =
                      IF user # Null
                      THEN SetOwn(participants,
                                  LAMBDA p : [p EXCEPT !.isMuted = newMuteState])
                      ELSE participants
                /\ channelRef' =
                      IF user # Null
                      THEN track(channelRef, roomId,
                                 Descriptor(newMuteState, isVideoOff, isScreenSharing))
                      ELSE channelRef
    /\ DidToggle("toggleAudio")
    /\ UNCHANGED <<user, roomId, chatMessages, localStream,
                   isVideoOff, isScreenSharing, isJoining,
                   localStreamRef, screenShareStreamRef, peerRef,
                   peerConnectionsRef, calls, oldPeers, subscribed,
                   joins, shares, timers, nextMsg>>

toggleVideo ==
    /\ UIReady
    /\ LET newVideoOffState == ~isVideoOff
       IN  IF localStream = NoStream \/ ~streams[localStream].video
           THEN UNCHANGED <<streams, isVideoOff, participants, channelRef>>
           ELSE /\ streams' = [streams EXCEPT ![localStream].vEn = ~newVideoOffState]
                /\ isVideoOff' = newVideoOffState
                /\ participants' =
                      IF user # Null
                      THEN SetOwn(participants,
                                  LAMBDA p : [p EXCEPT !.isVideoOff = newVideoOffState])
                      ELSE participants
                /\ channelRef' =
                      IF user # Null
                      THEN track(channelRef, roomId,
                                 Descriptor(isAudioMuted, newVideoOffState, isScreenSharing))
                      ELSE channelRef
    /\ DidToggle("toggleVideo")
    /\ UNCHANGED <<user, roomId, chatMessages, localStream,
                   isAudioMuted, isScreenSharing, isJoining,
                   localStreamRef, screenShareStreamRef, peerRef,
                   peerConnectionsRef, calls, oldPeers, subscribed,
                   joins, shares, timers, nextMsg>>

(* --------------------------- toggleScreenShare ------------------------ *)
\* the new call stored under the remote user's id instead of the address,
\* next to the closed call
RecreateByUser(table, media, redial) ==
    LET users == IF redial THEN {SplitUser(a) : a \in DOMAIN table} ELSE {}
    IN  [k \in DOMAIN table \cup users |->
            IF k \in DOMAIN table
            THEN [table[k] EXCEPT !.open = FALSE]
            ELSE LET a == CHOOSE b \in DOMAIN table : SplitUser(b) = k
                 IN  Call(a, media, "cur", k, FALSE)]

\* peerConnectionsRef.current.forEach: close the call; when redial holds,
\* call the same address with media and store the new call under it
Recreate(table, media, redial) ==
    [a \in DOMAIN table |->
        IF redial
        THEN Call(a, media, "cur", SplitUser(a), FALSE)
        ELSE [table[a] EXCEPT !.open = FALSE]]

\* what the stop branch and the onended handler share: back to the camera
\* stream when there is one, isScreenSharing off, re-advertise
EndShare(room, am, vo) ==
    /\ localStream' = IF localStreamRef # NoStream THEN localStreamRef ELSE localStream
    /\ peerConnectionsRef' =
          IF localStreamRef # NoStream
          THEN Recreate(peerConnectionsRef, localStreamRef, peerRef # NoPeer)
          ELSE peerConnectionsRef
    /\ isScreenSharing' = FALSE
    /\ participants' = SetOwn(participants,
                              LAMBDA p : [p EXCEPT !.isScreenSharing = FALSE])
    /\ channelRef' = track(channelRef, room, Descriptor(am, vo, FALSE))

\* toggleScreenShare(): the stop branch, or the start branch up to
\* `await getDisplayMedia`
toggleScreenShare ==
    /\ UIReady
    /\ IF user = Null
       THEN UNCHANGED <<localStream, peerConnectionsRef, isScreenSharing,
                        participants, channelRef, screenShareStreamRef, shares>>
       ELSE IF isScreenSharing
       THEN /\ screenShareStreamRef' = NoStream
            /\ EndShare(roomId, isAudioMuted, isVideoOff)
            /\ UNCHANGED shares
       ELSE /\ Cardinality(Used(streams)) + Reserved < MaxStreams
            /\ shares' = Append(shares, [room |-> roomId, am |-> isAudioMuted,
                                         vo |-> isVideoOff])
            /\ UNCHANGED <<localStream, peerConnectionsRef, isScreenSharing,
                           participants, channelRef, screenShareStreamRef>>
    /\ Did(IF user # Null /\ isScreenSharing
           THEN "toggleScreenShare_off" ELSE "toggleScreenShare")
    /\ UNCHANGED <<user, roomId, chatMessages, isAudioMuted, isVideoOff,
                   isJoining, localStreamRef, peerRef, calls, oldPeers,
                   subscribed, joins, timers, nextMsg>>
    /\ streams' = IF user # Null /\ isScreenSharing
                  THEN Collect(StopTracks(streams, screenShareStreamRef), Refs')
                  ELSE streams

\* getDisplayMedia resolves: the rest of the start branch
toggleScreenShare_granted(i) ==
    /\ i \in 1..Len(shares)
    /\ LET s == FreeId(streams)
           snap == shares[i]
       IN  /\ screenShareStreamRef' = s
           /\ localStream' = s
           /\ isScreenSharing' = TRUE
           /\ peerConnectionsRef' = Recreate(peerConnectionsRef, s, peerRef # NoPeer)
           /\ participants' = SetOwn(participants,
                                     LAMBDA p : [p EXCEPT !.isScreenSharing = TRUE])
           /\ channelRef' = track(channelRef, snap.room,
                                  Descriptor(snap.am, snap.vo, TRUE))
           /\ shares' = RemoveAt(shares, i)
           /\ Did("toggleScreenShare_granted")
           /\ UNCHANGED <<user, roomId, chatMessages, isAudioMuted, isVideoOff,
                          isJoining, localStreamRef, peerRef, calls, oldPeers,
                          subscribed, joins, timers, nextMsg>>
           /\ streams' = Collect(
                 [streams EXCEPT ![s] = [NewStream(TRUE, TRUE) EXCEPT
                     !.onended = [set |-> TRUE, room |-> snap.room]]],
                 Refs')

\* getDisplayMedia rejects: caught, nothing changes
toggleScreenShare_denied(i) ==
    /\ i \in 1..Len(shares)
    /\ shares' = RemoveAt(shares, i)
    /\ Did("toggleScreenShare_denied")
    /\ UNCHANGED <<user, roomId, participants, chatMessages, localStream,
                   isAudioMuted, isVideoOff, isScreenSharing, isJoining,
                   localStreamRef, screenShareStreamRef, channelRef, peerRef,
                   peerConnectionsRef, streams, calls, oldPeers, subscribed,
                   joins, timers, nextMsg>>

\* the browser ends the capture: the screen track's onended handler
screenEnded(s) ==
    /\ streams[s].used /\ streams[s].screen /\ streams[s].live
    /\ streams[s].onended.set
    /\ EndShare(streams[s].onended.room, isAudioMuted, isVideoOff)
    /\ Did("screenEnded")
    /\ UNCHANGED <<user, roomId, chatMessages, isAudioMuted, isVideoOff,
                   isJoining, localStreamRef, screenShareStreamRef, peerRef,
                   calls, oldPeers, subscribed, joins, shares, timers, nextMsg>>
    /\ streams' = Collect([streams EXCEPT ![s].live = FALSE], Refs')

(* ------------- the provider of src/unnamed/part_010 ------------------- *)
\* This provider keeps the local participant in a state of its own
\* (localParticipant, which follows localStream and the flags), so its
\* participants hold remote users only. Its handlers are prefixed lp_;
\* leaveRoom, the presence 'leave' handler and, for a logged-in user,
\* initializePeer and connectToPeers read as in RoomContext.tsx.
lp_initLocalStream(cam, mic) ==
    LET t == Fallback(cam, mic)
        s == FreeId(streams)
    IN  /\ localStreamRef' = IF t.handle THEN s ELSE localStreamRef
        /\ localStream' = IF t.handle THEN s ELSE localStream
        /\ isAudioMuted' = t.muted
        /\ isVideoOff' = t.videoOff
        /\ UNCHANGED participants
        /\ streams' = Collect(IF t.handle
                              THEN [streams EXCEPT ![s] = NewStream(FALSE, t.video)]
                              ELSE streams, Refs')

\* the rows of other users that the captured participants do not hold are
\* appended to prev
lp_fetchRoomParticipants(prev, snap, data, uid) ==
    prev \o SeqMap(RemoteEntry,
                   SeqFilter(LAMBDA d : d # uid /\ d \notin Ids(snap), data))

\* the entry the sync handler pushes for one presence
lp_SyncEntry(snap, pr) ==
    IF pr.user_id \in Ids(snap)
    THEN LET existingParticipant ==
                 snap[CHOOSE i \in 1..Len(snap) :
                         /\ snap[i].id = pr.user_id
                         /\ \A j \in 1..(i - 1) : snap[j].id # pr.user_id]
         IN  [existingParticipant EXCEPT
                 !.peerId = IF pr.peerId # Null THEN pr.peerId ELSE @]
    ELSE [RemoteEntry(pr.user_id) EXCEPT !.peerId = pr.peerId]

\* newParticipants of the sync handler: one entry per presence of another user
RECURSIVE lp_NewParticipants(_, _)
lp_NewParticipants(snap, presences) ==
    IF presences = << >> THEN << >>
    ELSE (IF Head(presences).user_id # Null /\ Head(presences).user_id # user
          THEN <<lp_SyncEntry(snap, Head(presences))>>
          ELSE << >>) \o lp_NewParticipants(snap, Tail(presences))

\* filteredParticipants: newParticipants without the ids still left in
\* currentParticipantIds, the captured ids that no presence named
lp_SyncRoster(snap, presences) ==
    LET seen == {presences[k].user_id : k \in
                    {n \in 1..Len(presences) : /\ presences[n].user_id # Null
                                               /\ presences[n].user_id # user}}
        currentParticipantIds == Ids(snap) \ seen
    IN  SeqFilter(LAMBDA p : p.id \notin currentParticipantIds,
                  lp_NewParticipants(snap, presences))

\* the functional updates of the join handler, one per presence with a peerId
RECURSIVE lp_JoinRoster(_, _)
lp_JoinRoster(prev, presences) ==
    IF presences = << >> THEN prev
    ELSE LET pr == Head(presences)
             next == IF pr.peerId = Null \/ pr.user_id = user THEN prev
                     ELSE IF pr.user_id \in Ids(prev)
                     THEN [i \in 1..Len(prev) |->
                             IF prev[i].id = pr.user_id
                             THEN [prev[i] EXCEPT !.peerId = pr.peerId]
                             ELSE prev[i]]
                     ELSE Append(prev, [RemoteEntry(pr.user_id) EXCEPT
                                           !.peerId = pr.peerId])
         IN  lp_JoinRoster(next, Tail(presences))

lp_joinRoom(id) ==
    /\ Len(joins) < MaxInflight
    /\ Cardinality(Used(streams)) + Reserved < MaxStreams
    /\ isJoining' = TRUE
    /\ joins' = Append(joins, [pc |-> "media", id |-> id,
                               snapRoom |-> roomId,
                               snapParticipants |-> participants,
                               snapAM |-> isAudioMuted,
                               snapVO |-> isVideoOff,
                               snapSS |-> isScreenSharing])
    /\ Did("joinRoom")
    /\ UNCHANGED <<user, roomId, participants, chatMessages, localStream,
                   isAudioMuted, isVideoOff, isScreenSharing,
                   localStreamRef, screenShareStreamRef, channelRef, peerRef,
                   peerConnectionsRef, streams, calls, oldPeers, subscribed,
                   shares, timers, nextMsg>>

lp_joinRoom_media(i, cam, mic) ==
    /\ i \in 1..Len(joins)
    /\ joins[i].pc = "media"
    /\ UNCHANGED <<user, chatMessages, isScreenSharing, isJoining,
                   screenShareStreamRef, channelRef, peerRef,
                   peerConnectionsRef, calls, oldPeers, subscribed,
                   shares, timers, nextMsg>>
    /\ lp_initLocalStream(cam, mic)
    /\ roomId' = joins[i].id
    /\ joins' = [joins EXCEPT ![i].pc = "fetch"]
    /\ Did("initLocalStream")

lp_joinRoom_finish(i, ok, data) ==
    /\ i \in 1..Len(joins)
    /\ joins[i].pc = "fetch"
    /\ participants' = IF ok
                       THEN lp_fetchRoomParticipants(participants,
                               joins[i].snapParticipants, data, user)
                       ELSE participants
    /\ initializePeer(joins[i].snapRoom)
    /\ peerConnectionsRef' = IF PeerReplaced(joins[i].snapRoom)
                             THEN [a \in DOMAIN peerConnectionsRef |->
                                     Orphaned(peerConnectionsRef[a])]
                             ELSE peerConnectionsRef
    /\ calls' = IF PeerReplaced(joins[i].snapRoom)
                THEN {Orphaned(c) : c \in calls}
                ELSE calls
    /\ setupChannels(joins[i].id, joins[i])
    /\ chatMessages' = <<Welcome>>
    /\ isJoining' = FALSE
    /\ joins' = RemoveAt(joins, i)
    /\ Did("joinRoom_finish")
    /\ UNCHANGED <<user, roomId, localStream, isAudioMuted, isVideoOff,
                   isScreenSharing, localStreamRef, screenShareStreamRef,
                   shares, timers, nextMsg>>
    /\ streams' = Collect(streams, Refs')

\* presence 'sync': the roster is rebuilt from the presence state and the
\* participants captured at joinRoom; connectToPeers runs a second later
lp_presenceSync(state) ==
    /\ PresenceLive
    /\ participants' = lp_SyncRoster(channelRef.snapParticipants, state)
    /\ timers' = timers \cup {channelRef.snapParticipants}
    /\ Did("presenceSync")
    /\ UNCHANGED <<user, roomId, chatMessages, localStream,
                   isAudioMuted, isVideoOff, isScreenSharing, isJoining,
                   localStreamRef, screenShareStreamRef, channelRef, peerRef,
                   peerConnectionsRef, calls, oldPeers, subscribed,
                   joins, shares, nextMsg>>
    /\ streams' = Collect(streams, Refs')

\* presence 'join'
lp_presenceJoin(newPresences) ==
    /\ PresenceLive
    /\ participants' = lp_JoinRoster(participants, newPresences)
    /\ timers' = IF \E k \in 1..Len(newPresences) :
                       /\ newPresences[k].peerId # Null
                       /\ newPresences[k].user_id # user
                 THEN timers \cup {channelRef.snapParticipants}
                 ELSE timers
    /\ Did("presenceJoin")
    /\ UNCHANGED <<user, roomId, chatMessages, localStream,
                   isAudioMuted, isVideoOff, isScreenSharing, isJoining,
                   localStreamRef, screenShareStreamRef, channelRef, peerRef,
                   peerConnectionsRef, streams, calls, oldPeers, subscribed,
                   joins, shares, nextMsg>>

(* --------------------------- specifications --------------------------- *)
FetchData == {<< >>, <<U1, P2>>}
Messages == {[id |-> 0 - 1, senderId |-> P2, text |-> "hi"],
             [id |-> 1, senderId |-> U1, text |-> "hello"]}
\* presence descriptors of the users us in a room: with the peer address
\* their Peer would have there, or without peerId
Presences(room, us) ==
    UNION {{[user_id |-> u, peerId |-> Null],
            [user_id |-> u, peerId |-> PeerAddress(room, u)]} : u \in us}
RECURSIVE SeqsUpTo(_, _)
SeqsUpTo(S, n) ==
    IF n = 0 THEN {<< >>}
    ELSE LET shorter == SeqsUpTo(S, n - 1)
         IN  shorter \cup {Append(q, x) : q \in shorter, x \in S}
PresenceLists == SeqsUpTo(Presences(channelRef.room, {P2, P3}), MaxPresences)
lp_PresenceLists == SeqsUpTo(Presences(channelRef.room, {U1, P2}), MaxPresences)

\* presence descriptors as the toggles of a remote user advertise them:
\* with the peer address and the media_status flags
FlagPresences(room, us) ==
    {[user_id |-> u, peerId |-> PeerAddress(room, u),
      audio |-> a, video |-> v, screen |-> sc] :
        u \in us, a \in BOOLEAN, v \in BOOLEAN, sc \in BOOLEAN}
FlagLists == SeqsUpTo(FlagPresences(channelRef.room, {P2}), MaxPresences)

\* the session lifecycle: joining (also while a session is active) and leaving
Next ==
    \/ /\ UNCHANGED page
       /\ \E id \in {R1} : joinRoom(id)
    \/ /\ UNCHANGED page
       /\ \E i \in 1..MaxInflight, cam \in BOOLEAN, mic \in BOOLEAN :
             joinRoom_media(i, cam, mic)
    \/ /\ UNCHANGED page
       /\ \E i \in 1..MaxInflight, ok \in BOOLEAN, data \in FetchData :
             joinRoom_finish(i, ok, data)
    \/ /\ UNCHANGED page
       /\ leaveRoom

Spec == Init /\ [][Next]_vars

\* joins in which a step after the media acquisition raises
RaiseSteps == {"peer", "presence", "chat"}

NextRaise ==
    \/ /\ UNCHANGED page
       /\ \E id \in {R1} : joinRoom(id)
    \/ /\ UNCHANGED page
       /\ \E i \in 1..MaxInflight, cam \in BOOLEAN, mic \in BOOLEAN :
             joinRoom_media(i, cam, mic)
    \/ /\ UNCHANGED page
       /\ \E i \in 1..MaxInflight : joinRoom_finish(i, TRUE, <<U1, P2>>)
    \/ /\ UNCHANGED page
       /\ \E i \in 1..MaxInflight, step \in RaiseSteps :
             joinRoom_raise(i, <<U1, P2>>, step)
    \/ /\ UNCHANGED page
       /\ leaveRoom

SpecRaise == Init /\ [][NextRaise]_vars

\* the Room page driving joinRoom and leaveRoom
NextPage ==
    \/ Room_effect
    \/ \E found \in BOOLEAN, public \in BOOLEAN : checkRoomAccess(found, public)
    \/ handleLeaveRoom
    \/ handleLeaveRoom_resume
    \/ /\ UNCHANGED page
       /\ \E i \in 1..MaxInflight, cam \in BOOLEAN : joinRoom_media(i, cam, cam)
    \/ /\ UNCHANGED page
       /\ \E i \in 1..MaxInflight : joinRoom_finish(i, TRUE, <<U1, P2>>)

SpecPage == Init /\ [][NextPage]_vars

\* what the user advertises on the presence channel: the subscription
\* being acknowledged and the toggles
NextPresence ==
    \/ /\ UNCHANGED page
       /\ \E id \in {R1} : peerRef = NoPeer /\ joinRoom(id)
    \/ /\ UNCHANGED page
       /\ \E i \in 1..MaxInflight, cam \in BOOLEAN : joinRoom_media(i, cam, cam)
    \/ /\ UNCHANGED page
       /\ \E i \in 1..MaxInflight : joinRoom_finish(i, TRUE, <<U1, P2>>)
    \/ /\ UNCHANGED page
       /\ peerOpen
    \/ /\ UNCHANGED page
       /\ presenceSubscribed
    \/ /\ UNCHANGED page
       /\ toggleAudio
    \/ /\ UNCHANGED page
       /\ toggleVideo
    \/ /\ UNCHANGED page
       /\ toggleScreenShare
    \/ /\ UNCHANGED page
       /\ \E i \in 1..MaxInflight : toggleScreenShare_granted(i)
    \/ /\ UNCHANGED page
       /\ \E i \in 1..MaxInflight : toggleScreenShare_denied(i)

SpecPresence == Init /\ [][NextPresence]_vars

\* sessions until the user's address is advertised: the Peer opening and
\* the presence subscription being acknowledged, in either order. The
\* realtime server acknowledges a subscription that stays pending
NextAdvertise ==
    \/ /\ UNCHANGED page
       /\ \E id \in {R1} : peerRef = NoPeer /\ joinRoom(id)
    \/ /\ UNCHANGED page
       /\ \E i \in 1..MaxInflight, cam \in BOOLEAN : joinRoom_media(i, cam, cam)
    \/ /\ UNCHANGED page
       /\ \E i \in 1..MaxInflight : joinRoom_finish(i, TRUE, <<U1, P2>>)
    \/ /\ UNCHANGED page
       /\ peerOpen
    \/ /\ UNCHANGED page
       /\ presenceSubscribed
    \/ /\ UNCHANGED page
       /\ leaveRoom

SpecAdvertise ==
    /\ Init
    /\ [][NextAdvertise]_vars
    /\ WF_vars(presenceSubscribed /\ UNCHANGED page)

\* a remote user in the roster re-advertising its media flags
NextFlags ==
    \/ /\ UNCHANGED page
       /\ \E id \in {R1} : peerRef = NoPeer /\ joinRoom(id)
    \/ /\ UNCHANGED page
       /\ \E i \in 1..MaxInflight, cam \in BOOLEAN : joinRoom_media(i, cam, cam)
    \/ /\ UNCHANGED page
       /\ \E i \in 1..MaxInflight, data \in {<<P2>>, <<U1, P2>>} :
             joinRoom_finish(i, TRUE, data)
    \/ /\ UNCHANGED page
       /\ peerOpen
    \/ /\ UNCHANGED page
       /\ \E state \in FlagLists : presenceSync(state)
    \/ /\ UNCHANGED page
       /\ \E newPresences \in FlagLists : presenceJoin(newPresences)
    \/ /\ UNCHANGED page
       /\ \E ts \in timers : connectTimer(ts)
    \/ /\ UNCHANGED page
       /\ \E c \in OpenCalls : callStream(c)
    \/ /\ UNCHANGED page
       /\ leaveRoom

SpecFlags == Init /\ [][NextFlags]_vars

\* chat in sessions joined from idle
NextChat ==
    \/ /\ UNCHANGED page
       /\ \E id \in {R1} : roomId = Null /\ joinRoom(id)
    \/ /\ UNCHANGED page
       /\ \E i \in 1..MaxInflight, cam \in BOOLEAN : joinRoom_media(i, cam, cam)
    \/ /\ UNCHANGED page
       /\ \E i \in 1..MaxInflight : joinRoom_finish(i, TRUE, <<U1, P2>>)
    \/ /\ UNCHANGED page
       /\ leaveRoom
    \/ /\ UNCHANGED page
       /\ \E text \in Texts : sendChatMessage(text)
    \/ /\ UNCHANGED page
       /\ \E msg \in Messages : chatMessage(msg)

SpecChat == Init /\ [][NextChat]_vars

\* chat in sessions in which joinRoom may be called again (the effect of
\* the Room page re-runs whenever the provider renders, and a
\* checkRoomAccess that started before hasJoined was set still joins)
NextHistory ==
    \/ /\ UNCHANGED page
       /\ \E id \in {R1} : joinRoom(id)
    \/ /\ UNCHANGED page
       /\ \E i \in 1..MaxInflight, cam \in BOOLEAN : joinRoom_media(i, cam, cam)
    \/ /\ UNCHANGED page
       /\ \E i \in 1..MaxInflight : joinRoom_finish(i, TRUE, <<U1, P2>>)
    \/ /\ UNCHANGED page
       /\ leaveRoom
    \/ /\ UNCHANGED page
       /\ \E text \in Texts : sendChatMessage(text)
    \/ /\ UNCHANGED page
       /\ \E msg \in Messages : chatMessage(msg)

SpecHistory == Init /\ [][NextHistory]_vars

\* joinRoom called while another joinRoom is suspended (two
\* checkRoomAccess calls of the Room page that both started before
\* hasJoined was set), on a machine where getUserMedia yields nothing or
\* one where it yields camera and microphone
NextOverlap ==
    \/ /\ UNCHANGED page
       /\ \E id \in {R1} : joinRoom_call(id, MaxOverlap)
    \/ /\ UNCHANGED page
       /\ \E i \in 1..MaxOverlap, cam \in BOOLEAN : joinRoom_media(i, cam, cam)
    \/ /\ UNCHANGED page
       /\ \E i \in 1..MaxOverlap : joinRoom_finish(i, TRUE, <<U1, P2>>)
    \/ /\ UNCHANGED page
       /\ \E i \in 1..MaxOverlap, step \in {"chat"} :
             joinRoom_raise(i, <<U1, P2>>, step)
    \/ /\ UNCHANGED page
       /\ leaveRoom

SpecOverlap == Init /\ [][NextOverlap]_vars

\* local media: the toggles, with screen sharing and a caller. A Peer
\* exists only after a joinRoom called in a session (initializePeer reads
\* the roomId of the render joinRoom was called in); the user joins again
\* until there is one
NextMedia ==
    \/ /\ UNCHANGED page
       /\ \E id \in {R1} : peerRef = NoPeer /\ joinRoom(id)
    \/ /\ UNCHANGED page
       /\ \E i \in 1..MaxInflight, cam \in BOOLEAN : joinRoom_media(i, cam, cam)
    \/ /\ UNCHANGED page
       /\ \E i \in 1..MaxInflight : joinRoom_finish(i, TRUE, <<U1, P2>>)
    \/ /\ UNCHANGED page
       /\ peerOpen
    \/ /\ UNCHANGED page
       /\ \E addr \in {PeerAddress(R1, P2)} :
             /\ addr \notin DOMAIN peerConnectionsRef
             /\ peerCall("cur", addr)
    \/ /\ UNCHANGED page
       /\ toggleAudio
    \/ /\ UNCHANGED page
       /\ toggleVideo
    \/ /\ UNCHANGED page
       /\ toggleScreenShare
    \/ /\ UNCHANGED page
       /\ \E i \in 1..MaxInflight : toggleScreenShare_granted(i)
    \/ /\ UNCHANGED page
       /\ \E i \in 1..MaxInflight : toggleScreenShare_denied(i)
    \/ /\ UNCHANGED page
       /\ \E s \in 1..MaxStreams : screenEnded(s)

SpecMedia == Init /\ [][NextMedia]_vars

\* the video grid following the roster of a session joined from idle: a
\* render that is due runs before the next event
NextTiles ==
    \/ /\ UNCHANGED page
       /\ ~TilesDirty
       /\ \E id \in {R1} : roomId = Null /\ joinRoom(id)
    \/ /\ UNCHANGED page
       /\ ~TilesDirty
       /\ \E i \in 1..MaxInflight, cam \in BOOLEAN, mic \in BOOLEAN :
             joinRoom_media(i, cam, mic)
    \/ /\ UNCHANGED page
       /\ ~TilesDirty
       /\ \E i \in 1..MaxInflight : joinRoom_finish(i, TRUE, <<U1, P2>>)
    \/ /\ UNCHANGED page
       /\ ~TilesDirty
       /\ toggleAudio
    \/ /\ UNCHANGED page
       /\ ~TilesDirty
       /\ toggleVideo
    \/ /\ UNCHANGED page
       /\ ~TilesDirty
       /\ leaveRoom
    \/ \E u \in {U1} \cup Remotes : VideoTile_render(u)

SpecTiles == Init /\ [][NextTiles]_vars

\* screen sharing against leaving and the other toggles: sessions joined
\* from idle, in which the user toggles sharing, microphone and camera and
\* may leave while the screen-capture prompt is open
NextShareLeave ==
    \/ /\ UNCHANGED page
       /\ \E id \in {R1} : roomId = Null /\ joinRoom(id)
    \/ /\ UNCHANGED page
       /\ \E i \in 1..MaxInflight, cam \in BOOLEAN : joinRoom_media(i, cam, cam)
    \/ /\ UNCHANGED page
       /\ \E i \in 1..MaxInflight : joinRoom_finish(i, TRUE, <<U1, P2>>)
    \/ /\ UNCHANGED page
       /\ roomId # Null /\ toggleScreenShare
    \/ /\ UNCHANGED page
       /\ \E i \in 1..MaxInflight : toggleScreenShare_granted(i)
    \/ /\ UNCHANGED page
       /\ \E i \in 1..MaxInflight : toggleScreenShare_denied(i)
    \/ /\ UNCHANGED page
       /\ \E s \in 1..MaxStreams : screenEnded(s)
    \/ /\ UNCHANGED page
       /\ leaveRoom
    \/ /\ UNCHANGED page
       /\ toggleAudio
    \/ /\ UNCHANGED page
       /\ toggleVideo

SpecShareLeave == Init /\ [][NextShareLeave]_vars

\* screen sharing over the links to two peers, who call once each, P2 first
NextShare ==
    \/ /\ UNCHANGED page
       /\ \E id \in {R1} : peerRef = NoPeer /\ joinRoom(id)
    \/ /\ UNCHANGED page
       /\ \E i \in 1..MaxInflight, cam \in BOOLEAN : joinRoom_media(i, cam, cam)
    \/ /\ UNCHANGED page
       /\ \E i \in 1..MaxInflight : joinRoom_finish(i, TRUE, <<U1, P2>>)
    \/ /\ UNCHANGED page
       /\ peerOpen
    \/ /\ UNCHANGED page
       /\ \E addr \in {PeerAddress(R1, P2), PeerAddress(R1, P3)} :
             /\ addr \notin DOMAIN peerConnectionsRef
             /\ addr = PeerAddress(R1, P3) =>
                   PeerAddress(R1, P2) \in DOMAIN peerConnectionsRef
             /\ peerCall("cur", addr)
    \/ /\ UNCHANGED page
       /\ toggleScreenShare
    \/ /\ UNCHANGED page
       /\ \E i \in 1..MaxInflight : toggleScreenShare_granted(i)
    \/ /\ UNCHANGED page
       /\ \E i \in 1..MaxInflight : toggleScreenShare_denied(i)
    \/ /\ UNCHANGED page
       /\ \E s \in 1..MaxStreams : screenEnded(s)

SpecShare == Init /\ [][NextShare]_vars

\* peer discovery: presence events, the calls they lead to and the streams.
\* A remote peer calls an address once, also when this side has called it
NextMesh ==
    \/ /\ UNCHANGED page
       /\ \E id \in {R1} : peerRef = NoPeer /\ joinRoom(id)
    \/ /\ UNCHANGED page
       /\ \E i \in 1..MaxInflight, cam \in BOOLEAN : joinRoom_media(i, cam, cam)
    \/ /\ UNCHANGED page
       /\ \E i \in 1..MaxInflight, data \in {<<P2>>} :
             joinRoom_finish(i, TRUE, data)
    \/ /\ UNCHANGED page
       /\ peerOpen
    \/ /\ UNCHANGED page
       /\ \E addr \in {PeerAddress(R1, P2), PeerAddress(R1, P3)} :
             /\ \/ addr \notin DOMAIN peerConnectionsRef
                \/ /\ addr \in DOMAIN peerConnectionsRef
                   /\ Outbound(peerConnectionsRef[addr])
             /\ peerCall("cur", addr)
    \/ /\ UNCHANGED page
       /\ \E c \in OpenCalls : callStream(c)
    \/ /\ UNCHANGED page
       /\ \E state \in PresenceLists : presenceSync(state)
    \/ /\ UNCHANGED page
       /\ \E newPresences \in PresenceLists : presenceJoin(newPresences)
    \/ /\ UNCHANGED page
       /\ \E leftPresences \in PresenceLists : presenceLeave(leftPresences)
    \/ /\ UNCHANGED page
       /\ \E ts \in timers : connectTimer(ts)

SpecMesh == Init /\ [][NextMesh]_vars

\* calls that fail: both sides call, through presence and directly, and
\* any open call may break down
NextFail ==
    \/ /\ UNCHANGED page
       /\ \E id \in {R1} : peerRef = NoPeer /\ joinRoom(id)
    \/ /\ UNCHANGED page
       /\ \E i \in 1..MaxInflight, cam \in BOOLEAN : joinRoom_media(i, cam, cam)
    \/ /\ UNCHANGED page
       /\ \E i \in 1..MaxInflight, data \in {<<P2, P3>>} :
             joinRoom_finish(i, TRUE, data)
    \/ /\ UNCHANGED page
       /\ peerOpen
    \/ /\ UNCHANGED page
       /\ \E addr \in {PeerAddress(R1, P2), PeerAddress(R1, P3)} :
             /\ addr \notin DOMAIN peerConnectionsRef
             /\ peerCall("cur", addr)
    \/ /\ UNCHANGED page
       /\ \E state \in PresenceLists : presenceSync(state)
    \/ /\ UNCHANGED page
       /\ \E addr \in {PeerAddress(R1, P2), PeerAddress(R1, P3)} : peerError(addr)

SpecFail == Init /\ [][NextFail]_vars

\* inbound calls in rooms whose id has one '-'-separated field (R1) or two
\* (R2): the callers' addresses are built from the room id and their user id
RoomIds == {R1, R2}

NextAddress ==
    \/ /\ UNCHANGED page
       /\ \E id \in RoomIds : peerRef = NoPeer /\ joinRoom(id)
    \/ /\ UNCHANGED page
       /\ \E i \in 1..MaxInflight, cam \in BOOLEAN : joinRoom_media(i, cam, cam)
    \/ /\ UNCHANGED page
       /\ \E i \in 1..MaxInflight, data \in {<<P2, P3>>} :
             joinRoom_finish(i, TRUE, data)
    \/ /\ UNCHANGED page
       /\ peerOpen
    \/ /\ UNCHANGED page
       /\ \E u \in Remotes :
             /\ roomId # Null
             /\ PeerAddress(roomId, u) \notin DOMAIN peerConnectionsRef
             /\ peerCall("cur", PeerAddress(roomId, u))
    \/ /\ UNCHANGED page
       /\ \E c \in OpenCalls : callStream(c)

SpecAddress == Init /\ [][NextAddress]_vars

\* the roster handling of part_010 for a logged-in user
InitLP == Init /\ user = U1

NextLP ==
    \/ /\ UNCHANGED page
       /\ \E id \in {R1} : peerRef = NoPeer /\ lp_joinRoom(id)
    \/ /\ UNCHANGED page
       /\ \E i \in 1..MaxInflight, cam \in BOOLEAN : lp_joinRoom_media(i, cam, cam)
    \/ /\ UNCHANGED page
       /\ \E i \in 1..MaxInflight, data \in {<<P2>>, <<U1, P2, P3>>} :
             lp_joinRoom_finish(i, TRUE, data)
    \/ /\ UNCHANGED page
       /\ \E state \in lp_PresenceLists : lp_presenceSync(state)
    \/ /\ UNCHANGED page
       /\ \E newPresences \in lp_PresenceLists : lp_presenceJoin(newPresences)
    \/ /\ UNCHANGED page
       /\ \E leftPresences \in lp_PresenceLists : presenceLeave(leftPresences)
    \/ /\ UNCHANGED page
       /\ \E ts \in timers : connectTimer(ts)

SpecLP == InitLP /\ [][NextLP]_vars

(* ------------------------------- claims ------------------------------- *)
Mine(ps) == {k \in 1..Len(ps) : ps[k].id = user}

\* C1 - initLocalStream always settles (joinRoom goes on to set the room id)
\* with the outcome its devices fix: camera and microphone give a new live
\* handle with a video track, isAudioMuted and isVideoOff false; a
\* microphone alone gives a new live handle without video track,
\* isAudioMuted false and isVideoOff true; no microphone gives no handle,
\* both flags true. The user's roster entry exists once and carries the
\* same two flags.
C1_FallbackOutcome ==
    [][\A i \in 1..MaxInflight, cam \in BOOLEAN, mic \in BOOLEAN :
          joinRoom_media(i, cam, mic) =>
            /\ roomId' = joins[i].id
            /\ (cam /\ mic) =>
                  /\ localStreamRef' \notin Used(streams) \cup {NoStream}
                  /\ streams'[localStreamRef'].live
                  /\ streams'[localStreamRef'].video
                  /\ ~isAudioMuted' /\ ~isVideoOff'
            /\ (~cam /\ mic) =>
                  /\ localStreamRef' \notin Used(streams) \cup {NoStream}
                  /\ streams'[localStreamRef'].live
                  /\ ~streams'[localStreamRef'].video
                  /\ ~isAudioMuted' /\ isVideoOff'
            /\ ~mic =>
                  /\ localStreamRef' = localStreamRef
                  /\ Used(streams') \subseteq Used(streams)
                  /\ isAudioMuted' /\ isVideoOff'
            /\ Cardinality(Mine(participants')) = 1
            /\ \A k \in Mine(participants') :
                  /\ participants'[k].isMuted = isAudioMuted'
                  /\ participants'[k].isVideoOff = isVideoOff'
      ]_vars

\* the audio-only tier has run in a session that held a camera stream before
C1_Witness ==
    /\ lastOp.op = "initLocalStream"
    /\ localStreamRef # NoStream
    /\ ~streams[localStreamRef].video
    /\ isVideoOff /\ ~isAudioMuted
    /\ \E s \in 1..MaxStreams : streams[s].used /\ streams[s].video

NoLiveTrack == \A s \in 1..MaxStreams : ~(streams[s].used /\ streams[s].live)

\* C3 - after leaveRoom, called in any state, no camera, microphone or
\* screen track is live, the PeerLink table is empty and no call is open,
\* no Peer is left undestroyed and no channel is subscribed
C3_LeaveTeardown ==
    lastOp.op = "leaveRoom" =>
        /\ NoLiveTrack
        /\ peerConnectionsRef = << >>
        /\ calls = {}
        /\ peerRef = NoPeer
        /\ oldPeers = {}
        /\ subscribed = {}

\* C4 - in an active session sendChatMessage(text) appends, in that step,
\* one message with this text and the user's id as senderId at the end of
\* the chat history and leaves the messages before it as they were
C4_LocalEcho ==
    [][\A text \in Texts :
          (sendChatMessage(text) /\ user # Null /\ roomId # Null) =>
            /\ Len(chatMessages') = Len(chatMessages) + 1
            /\ SubSeq(chatMessages', 1, Len(chatMessages)) = chatMessages
            /\ chatMessages'[Len(chatMessages')].text = text
            /\ chatMessages'[Len(chatMessages')].senderId = user
      ]_vars

\* a message sent in a session without local media, after the welcome
\* message and a message of a remote participant
C4_Witness ==
    /\ lastOp.op = "sendChatMessage"
    /\ roomId # Null
    /\ localStreamRef = NoStream
    /\ Len(chatMessages) = 3
    /\ chatMessages[3].senderId = user
    /\ chatMessages[2].senderId = P2

\* C2 - no two entries of the roster have the same id
C2_RosterUnique ==
    \A i \in 1..Len(participants), j \in 1..Len(participants) :
        participants[i].id = participants[j].id => i = j

\* C5 - after two toggleAudio calls in a row isAudioMuted and the enabled
\* value of the microphone track are what they were before the first, and
\* after two toggleVideo calls in a row so are isVideoOff and the enabled
\* value of the camera track
C5_ToggleTwice ==
    /\ lastOp = [op |-> "toggleAudio", n |-> 2] =>
          isAudioMuted = pre.am /\ MicEnabled = pre.mic
    /\ lastOp = [op |-> "toggleVideo", n |-> 2] =>
          isVideoOff = pre.vo /\ CamEnabled = pre.cam

ShareStep ==
    \/ toggleScreenShare
    \/ \E i \in 1..MaxInflight : toggleScreenShare_granted(i)
    \/ \E i \in 1..MaxInflight : toggleScreenShare_denied(i)
    \/ \E s \in 1..MaxStreams : screenEnded(s)

\* C6 - no step of screen sharing (the toggle that starts or stops it, the
\* prompt being granted or denied, the browser ending the capture) adds an
\* address to the PeerLink table or drops one, so the addresses after
\* sharing was turned on and off again are those before
C6_SharePreservesPeers ==
    [][ShareStep => DOMAIN peerConnectionsRef' = DOMAIN peerConnectionsRef]_vars

\* sharing was turned off again and the links to two peers were re-made
\* with the camera stream
C6_Witness ==
    /\ lastOp.op = "toggleScreenShare_off"
    /\ localStreamRef # NoStream
    /\ Cardinality(DOMAIN peerConnectionsRef) = 2
    /\ \A a \in DOMAIN peerConnectionsRef :
          /\ peerConnectionsRef[a].media = localStreamRef
          /\ ~peerConnectionsRef[a].setsPeer

LinksTo(a) == {c \in OpenCalls : c.peer = a}

\* C7 - once the prompt is granted every address of the PeerLink table has
\* exactly one open call, the registered one, which carries the screen
\* stream; once sharing is toggled off every address has exactly one open
\* call, the registered one, which carries what localStreamRef holds
C7_OneLinkPerPeer ==
    /\ lastOp.op = "toggleScreenShare_granted" =>
          \A a \in DOMAIN peerConnectionsRef :
              /\ LinksTo(a) = {peerConnectionsRef[a]}
              /\ peerConnectionsRef[a].media = screenShareStreamRef
    /\ lastOp.op = "toggleScreenShare_off" =>
          \A a \in DOMAIN peerConnectionsRef :
              /\ LinksTo(a) = {peerConnectionsRef[a]}
              /\ peerConnectionsRef[a].media = localStreamRef

\* C8 - a presence leave that names another user who has an open call
\* registered under their peer address removes that user from the roster
\* and the call from the table, whether or not the presence carries a peerId
C8_LeaveClosesLink ==
    [][\A leftPresences \in PresenceLists :
          presenceLeave(leftPresences) =>
            \A k \in 1..Len(leftPresences) :
                LET u == leftPresences[k].user_id
                    a == PeerAddress(channelRef.room, u)
                IN  (/\ u # user
                     /\ a \in DOMAIN peerConnectionsRef
                     /\ peerConnectionsRef[a].open) =>
                        /\ u \notin Ids(participants')
                        /\ a \notin DOMAIN peerConnectionsRef'
      ]_vars

\* C9 - after a presence sync or join that reports another user with a
\* peer address, the roster has exactly one entry for that user
C9_UnknownIdentityAdded ==
    [][\A presences \in PresenceLists :
          (presenceSync(presences) \/ presenceJoin(presences)) =>
            \A k \in 1..Len(presences) :
                (presences[k].user_id # user /\ presences[k].peerId # Null) =>
                    Cardinality({i \in 1..Len(participants') :
                        participants'[i].id = presences[k].user_id}) = 1
      ]_vars

\* C10 - when connectToPeers has run (in a presence sync, or a second after
\* a presence join) with a local stream and a Peer at hand, every roster
\* entry of another user that has a peer address has a call registered
\* under that address
C10_FullMesh ==
    [][((\E state \in PresenceLists : presenceSync(state))
            \/ (\E ts \in timers : connectTimer(ts)))
        /\ user # Null /\ localStreamRef # NoStream /\ peerRef # NoPeer
        => \A i \in 1..Len(participants') :
              (participants'[i].id # user /\ participants'[i].peerId # Null) =>
                  participants'[i].peerId \in DOMAIN peerConnectionsRef'
      ]_vars

\* C11 - every open call is the one registered in the PeerLink table under
\* its remote address, so no address has two open calls, also after a call
\* from a peer came in while a call to that peer was open
C11_OneLinkPerAddress ==
    \A c \in OpenCalls :
        /\ c.peer \in DOMAIN peerConnectionsRef
        /\ peerConnectionsRef[c.peer] = c

\* C12 - when a joinRoom has completed, whatever session was active when
\* it was called is gone: the only live local stream is the one
\* localStreamRef holds, no Peer of an earlier join is left undestroyed and
\* no call made through one is open, and only the channels of the room
\* just joined are subscribed
C12_RejoinTearsDown ==
    lastOp.op = "joinRoom_finish" =>
        /\ \A s \in 1..MaxStreams :
              (streams[s].used /\ streams[s].live) => s = localStreamRef
        /\ oldPeers = {}
        /\ \A c \in OpenCalls : c.via = "cur"
        /\ subscribed \subseteq {PresenceTopic(channelRef.room),
                                 ChatTopic(channelRef.room)}

\* C13 - when a step of joinRoom after the media acquisition has raised,
\* the join ends idle: roomId is null, no local track is live, no channel
\* is subscribed, there is no Peer, no PeerLink and no open call, and
\* isJoining is false
C13_JoinRollback ==
    lastOp.op = "joinRoom_raise" =>
        /\ roomId = Null
        /\ NoLiveTrack
        /\ subscribed = {}
        /\ peerRef = NoPeer
        /\ oldPeers = {}
        /\ peerConnectionsRef = << >>
        /\ calls = {}
        /\ ~isJoining

Idle ==
    /\ roomId = Null
    /\ participants = << >>
    /\ chatMessages = << >>
    /\ NoLiveTrack
    /\ peerRef = NoPeer
    /\ oldPeers = {}
    /\ peerConnectionsRef = << >>
    /\ calls = {}
    /\ subscribed = {}

\* C14 - when leaveRoom ran while a joinRoom was suspended at an await,
\* then once that joinRoom has completed the coordinator is idle: roomId is
\* null, roster and chat history are empty, no track is live, there is no
\* Peer, PeerLink or open call, and no channel is subscribed
C14_LeaveDuringJoin ==
    (lastOp.op = "joinRoom_finish" /\ page.leftMidJoin /\ joins = << >>) => Idle

\* C15 - a checkRoomAccess whose room was not found, or is private while
\* nobody is logged in, does not call joinRoom; and whenever nobody is
\* logged in (joinRoom then returns at once) the step requests no media,
\* opens no channel and no Peer, and leaves roomId, roster and chat alone
C15_PreconditionFailure ==
    [][\A found \in BOOLEAN, public \in BOOLEAN :
          checkRoomAccess(found, public) =>
            /\ (~found \/ (~public /\ user = Null)) => lastOp'.op # "joinRoom"
            /\ (~found \/ user = Null) =>
                  UNCHANGED <<joins, isJoining, streams, localStreamRef,
                              localStream, peerRef, channelRef, subscribed,
                              roomId, participants, chatMessages>>
      ]_vars

\* a check failed on a page that had been authorized and had not joined
\* yet, while the user is logged in
C15_Witness ==
    /\ lastOp.op = "checkRoomAccess"
    /\ user # Null
    /\ page.roomError /\ page.isAuthorized /\ ~page.hasJoined

\* C16 - when a joinRoom(id) that was called with no room joined (roomId
\* null) completes, peerRef holds a Peer whose address is id joined with
\* the user's id by '-'
C16_PeerAddress ==
    [][\A i \in 1..MaxInflight, ok \in BOOLEAN, data \in FetchData :
          (joinRoom_finish(i, ok, data) /\ joins[i].snapRoom = Null) =>
            peerRef'.id = PeerAddress(joins[i].id, user)
      ]_vars

\* C17 - no two entries of the chat history are messages of the local user
\* with the same id; the delivery of a message the local user sent leaves
\* the history as it is, and each delivery of a message of another sender
\* appends that message once
C17_NoEchoDuplicate ==
    [][/\ \A i \in 1..Len(chatMessages'), j \in 1..Len(chatMessages') :
            (/\ chatMessages'[i].senderId = user
             /\ chatMessages'[i].id = chatMessages'[j].id) => i = j
       /\ \A msg \in Messages :
            chatMessage(msg) =>
                chatMessages' = IF msg.senderId = user
                                THEN chatMessages
                                ELSE Append(chatMessages, msg)
      ]_vars

\* the user's message with id 1 is the last of the history and a
\* delivery came after it: the channel delivered it back
C17_Witness ==
    /\ lastOp.op = "chatMessage"
    /\ chatMessages # << >>
    /\ chatMessages[Len(chatMessages)].senderId = user
    /\ chatMessages[Len(chatMessages)].id = 1

\* C18 - once the presence subscription was acknowledged and the user was
\* advertised, then right after that advertisement and right after every
\* toggleAudio, toggleVideo and screen share toggle the advertised
\* descriptor says audio exactly when isAudioMuted is false, video exactly
\* when isVideoOff is false and screen exactly when isScreenSharing is true
C18_PresenceReflectsState ==
    (/\ channelRef.tracked
     /\ lastOp.op \in {"presenceSubscribed", "toggleAudio", "toggleVideo",
                       "toggleScreenShare_granted", "toggleScreenShare_off"}) =>
        /\ channelRef.adv.audio = ~isAudioMuted
        /\ channelRef.adv.video = ~isVideoOff
        /\ channelRef.adv.screen = isScreenSharing

\* C19 - whenever the Peer in peerRef is open, eventually the descriptor
\* advertised on the presence channel carries that Peer's address (or the
\* session has been left), whether the Peer opened before or after the
\* subscription was acknowledged
C19_AddressAdvertised ==
    (peerRef # NoPeer /\ peerRef.ready)
        ~> (peerRef = NoPeer \/ channelRef.adv.peerId = peerRef.id)

\* the subscription was acknowledged first, then the Peer opened, and the
\* descriptor carries its address
C19_Witness ==
    /\ lastOp.op = "peerOpen"
    /\ channelRef.tracked
    /\ peerRef.ready
    /\ channelRef.adv.peerId = peerRef.id

\* C20 - after a presence sync or join, the roster entry of every other
\* user the event reports has isMuted, isVideoOff and isScreenSharing as
\* the last descriptor reported for that user says: muted when audio is
\* off, video off when video is off, sharing when screen is on
C20_RemoteFlags ==
    [][\A presences \in FlagLists :
          (presenceSync(presences) \/ presenceJoin(presences)) =>
            \A k \in 1..Len(presences), i \in 1..Len(participants') :
                (/\ presences[k].user_id # user
                 /\ participants'[i].id = presences[k].user_id
                 /\ \A n \in (k + 1)..Len(presences) :
                       presences[n].user_id # presences[k].user_id) =>
                    /\ participants'[i].isMuted = ~presences[k].audio
                    /\ participants'[i].isVideoOff = ~presences[k].video
                    /\ participants'[i].isScreenSharing = presences[k].screen
      ]_vars

\* C21 - an inbound call is answered with what localStreamRef holds (nothing
\* when it holds no stream) and is stored in the PeerLink table under the
\* caller's address, and in both cases it has a 'stream' handler that
\* attaches the caller's stream to the caller's roster entry
C21_InboundAnswered ==
    [][\A addr \in {PeerAddress(R1, P2), PeerAddress(R1, P3)} :
          peerCall("cur", addr) =>
            /\ addr \in DOMAIN peerConnectionsRef'
            /\ peerConnectionsRef'[addr].open
            /\ peerConnectionsRef'[addr].peer = addr
            /\ peerConnectionsRef'[addr].media = localStreamRef
            /\ peerConnectionsRef'[addr].target = SplitUser(addr)
      ]_vars

\* C22 - when a call fails its entry leaves the PeerLink table, every other
\* entry stays as it was, the roster (the failed peer's entry included),
\* roomId, the channels and the local media are unchanged
C22_FailureIsolated ==
    [][\A addr \in {PeerAddress(R1, P2), PeerAddress(R1, P3)} :
          peerError(addr) =>
            /\ addr \notin DOMAIN peerConnectionsRef'
            /\ \A b \in DOMAIN peerConnectionsRef \ {addr} :
                  /\ b \in DOMAIN peerConnectionsRef'
                  /\ peerConnectionsRef'[b] = peerConnectionsRef[b]
            /\ UNCHANGED <<participants, roomId, channelRef, subscribed,
                           localStream, localStreamRef, streams>>
      ]_vars

\* C23 - the chat history of a session starts as the welcome message alone,
\* is empty after leaveRoom, and in between every step leaves it as it is
\* or appends one message at its end
C23_HistoryAppendOnly ==
    [][/\ lastOp'.op = "leaveRoom" => chatMessages' = << >>
       /\ (lastOp'.op = "joinRoom_finish" /\ chatMessages = << >>) =>
             chatMessages' = <<Welcome>>
       /\ (lastOp'.op # "leaveRoom" /\ chatMessages # << >>) =>
             \/ chatMessages' = chatMessages
             \/ /\ Len(chatMessages') = Len(chatMessages) + 1
                /\ SubSeq(chatMessages', 1, Len(chatMessages)) = chatMessages
      ]_vars

\* C24 - whenever there is no session (roomId null, no joinRoom in flight)
\* localStream is null, isScreenSharing is false and no camera, microphone
\* or screen track is live, however leaveRoom interleaves with a
\* toggleScreenShare waiting for the prompt and with the 'ended' callback
C24_IdleHoldsNoMedia ==
    (roomId = Null /\ joins = << >> /\ ~isJoining) =>
        /\ localStream = NoStream
        /\ ~isScreenSharing
        /\ NoLiveTrack

\* C25 - the tracks of a camera/microphone stream stop being live only in
\* leaveRoom: no render of a video tile, with whatever roster entry, stops
\* a track
C25_TrackOwnership ==
    [][\A s \in 1..MaxStreams :
          (/\ streams[s].used /\ ~streams[s].screen /\ streams[s].live
           /\ ~(streams'[s].used /\ streams'[s].live)) =>
              lastOp'.op = "leaveRoom"
      ]_vars

\* C26 - in a session that holds a camera/microphone stream the microphone
\* track is enabled exactly when isAudioMuted is false and the camera track,
\* if the stream has one, exactly when isVideoOff is false, also while the
\* screen is shared
C26_FlagTrackConsistency ==
    (roomId # Null /\ localStreamRef # NoStream) =>
        /\ streams[localStreamRef].aEn = ~isAudioMuted
        /\ streams[localStreamRef].video =>
              streams[localStreamRef].vEn = ~isVideoOff

\* C27 - the identity the stream handlers recover from a peer address built
\* from a room id and an identity (its second '-'-separated field) is that
\* identity, also for ids that contain '-': the stream of a call from the
\* address of identity u in room r is attached to the roster entry of u and
\* to no other
C27_AddressRoundTrip ==
    [][\A c \in OpenCalls, r \in RoomIds, u \in Remotes :
          (callStream(c) /\ c.setsPeer /\ c.peer = PeerAddress(r, u)) =>
            /\ SplitUser(c.peer) = u
            /\ \A k \in 1..Len(participants) :
                  IF participants[k].id = u
                  THEN participants'[k].stream = RemoteStream(c.peer)
                  ELSE participants'[k] = participants[k]
      ]_vars

\* C28 - isJoining is true exactly while some joinRoom invocation has
\* started and not finished: it is never false while a join is suspended
\* and never true when none is
C28_JoiningIffInFlight == isJoining <=> joins # << >>

\* C29 - screenShareStreamRef holds a stream exactly when isScreenSharing is
\* true, whichever way sharing ended: the toggle, the browser ending the
\* capture, or leaveRoom
C29_ShareHandleConsistency ==
    (screenShareStreamRef # NoStream) <=> isScreenSharing

\* C30 - while isScreenSharing is true, a call that enters the PeerLink
\* table, by answering an inbound call or by calling a discovered peer,
\* carries the screen stream
C30_NewLinksCarryScreen ==
    [][(isScreenSharing /\ lastOp'.op \in {"peerCall", "presenceSync",
                                            "connectToPeers"}) =>
          \A a \in DOMAIN peerConnectionsRef' :
              (\/ a \notin DOMAIN peerConnectionsRef
               \/ peerConnectionsRef'[a] # peerConnectionsRef[a]) =>
                  peerConnectionsRef'[a].media = screenShareStreamRef
      ]_vars

====
